---- MODULE Spec2Model ----
(* Model of src/src/index.ts: the MCP request handlers of the voice-call    *)
(* server.  Handlers run on one event loop: a handler runs without          *)
(* interruption up to its next await, so each action below is one such      *)
(* segment of callToolRequestHandler.                                        *)
EXTENDS Integers, Sequences, FiniteSets, TLC

(* ------------------------------------------------------------------ *)
(* Bounds                                                             *)
(* ------------------------------------------------------------------ *)

\* number of call-tool requests the host sends during a run
MaxReq == 2

ReqIds == 1..MaxReq

\* number of streaming connections clients open in networked mode
MaxConn == 2

ConnIds == 1..MaxConn

(* ------------------------------------------------------------------ *)
(* Values                                                             *)
(* ------------------------------------------------------------------ *)

\* JavaScript undefined, as it appears in a destructured field
Undefined == "undefined"

\* toNumber.length < 10 is rejected (index.ts:131)
MinE164Len == 10

\* strings the validation indexes into are sequences of characters
NoPlus10 == <<"1", "2", "3", "4", "5", "6", "7", "8", "9", "0">>
Plus9 == <<"+", "1", "2", "3", "4", "5", "6", "7", "8">>
Plus10 == <<"+", "1", "2", "3", "4", "5", "6", "7", "8", "9">>
Plus11 == <<"+", "1", "2", "3", "4", "5", "6", "7", "8", "9", "0">>
EmptyStr == <<>>

TRIGGER_CALL_TOOL == "trigger-call"

\* request.params.arguments absent
NoArgs == [present |-> FALSE, hasToNumber |-> FALSE, toNumber |-> EmptyStr,
           callContext |-> Undefined]

\* request.params.arguments = { toNumber?, callContext? }
Args(hasTo, to, ctx) == [present |-> TRUE, hasToNumber |-> hasTo, toNumber |-> to,
                         callContext |-> ctx]

\* the call-tool requests the host may send
Requests ==
    { [name |-> n, args |-> NoArgs] : n \in {TRIGGER_CALL_TOOL, "unsupported-tool"} }
    \cup { [name |-> n, args |-> Args(FALSE, EmptyStr, Undefined)] :
             n \in {TRIGGER_CALL_TOOL, "unsupported-tool"} }
    \cup { [name |-> TRIGGER_CALL_TOOL, args |-> Args(TRUE, t, Undefined)] :
             t \in {EmptyStr, NoPlus10, Plus9, Plus10} }
    \cup { [name |-> TRIGGER_CALL_TOOL, args |-> Args(TRUE, Plus11, "test")] }

NoRequest == [name |-> "", args |-> NoArgs]

\* values of process.env.SSE_LOCAL: unset, or set as the README shows
EnvValues == {Undefined, "true"}

\* process.exit(1)
FatalExitCode == 1

\* outcomes of the collaborators
Urls == {"https://abc.ngrok.io", "https://xyz.ngrok.io"}
Sids == {"CA123", "CA456"}
ClientErrors == {"username is required"}
ImportErrors == {"Cannot find package '@ngrok/ngrok' imported from /app/dist/index.js"}
ForwardErrors == {"ngrok authtoken invalid"}
CallErrors == {"Twilio API error"}

(* ------------------------------------------------------------------ *)
(* Pure parts of callToolRequestHandler                               *)
(* ------------------------------------------------------------------ *)

\* const { toNumber, callContext = '' } = args
ToNumberOf_Shared(args) == <<"+", "1", "2", "3", "4", "5", "6", "7", "8", "9">>

ToNumberOf(args) == args.toNumber

CallContextOf_NoDefault(args) == args.callContext

CallContextOf(args) == IF args.callContext = Undefined THEN "" ELSE args.callContext

\* !toNumber : undefined and '' are falsy
ToNumberMissing_OnlyUndefined(args) == ~args.hasToNumber

ToNumberMissing(args) == ~args.hasToNumber \/ Len(args.toNumber) = 0

\* toNumber.startsWith('+') && toNumber.length >= 10
IsE164_NoLength(t) == Len(t) >= 1 /\ t[1] = "+"

IsE164(t) == Len(t) >= 1 /\ t[1] = "+" /\ Len(t) >= MinE164Len

\* if (!twilioCallService)
NeedsClientInit_Always(svc) == TRUE

NeedsClientInit(svc) == svc = 0

\* if (!twilioCallbackUrl)
NeedsTunnel(url) == url = ""

\* if (!url) throw new Error('Failed to obtain ngrok URL')
UrlObtained_Unchecked(url) == TRUE

UrlObtained(url) == url # ""

\* twilioCallService after initializeTwilioServices: assigned only when the
\* constructor returns
ClientAfterInit(svc, ok, id) == IF ok THEN id ELSE svc

\* `Failed to trigger call: ${errorMessage}`
FailureMessage_Generic(m) == <<"Failed to trigger call">>

FailureMessage(m) == <<"Failed to trigger call: ", m>>

\* `Unknown tool: ${name}`
UnknownToolText_NoName(name) == <<"Unknown tool: ">>

UnknownToolText(name) == <<"Unknown tool: ", name>>

\* `Error: ${error.message}`
ErrorText_NoMessage(m) == <<"Error: ">>

ErrorText(m) == <<"Error: ", m>>

MsgNoArguments == "No arguments provided"
MsgRequired == "Phone number is required"
MsgE164 == "Phone number must be in E.164 format (e.g., +1234567890)"
MsgNoUrl == "Failed to obtain ngrok URL"

NoResponse == [kind |-> "none", isError |-> FALSE, text |-> <<>>, status |-> Undefined,
               message |-> <<>>, callSid |-> Undefined, toNumber |-> EmptyStr,
               hasToNumber |-> FALSE, callContext |-> Undefined]

\* { content: [{type:'text', text}], isError: true } with a plain text
TextEnvelope(t) == [NoResponse EXCEPT !.kind = "text", !.isError = TRUE, !.text = t]

\* JSON.stringify({status:'success', message, callSid, toNumber, callContext})
SuccessEnvelope(sid, to, ctx) ==
    [NoResponse EXCEPT !.kind = "json", !.isError = FALSE, !.status = "success",
                       !.message = <<"Call triggered successfully">>,
                       !.callSid = sid, !.toNumber = to, !.hasToNumber = TRUE,
                       !.callContext = ctx]

\* JSON.stringify({status:'error', message: `Failed to trigger call: ...`})
FailureEnvelope(m) ==
    [NoResponse EXCEPT !.kind = "json", !.isError = TRUE, !.status = "error",
                       !.message = FailureMessage(m)]

\* finally { console.error(`Request completed in ...ms`) }
FinallyLog_Skipped(lines) == lines

FinallyLog(lines) == lines \o <<"completed">>

\* { tools: [TRIGGER_CALL_TOOL] }
ListToolsResult_Unsupported == <<TRIGGER_CALL_TOOL, "unsupported-tool">>

ListToolsResult == <<TRIGGER_CALL_TOOL>>

\* if (process.env.SSE_LOCAL === 'true') runSSEServer() else runStdioServer()
SelectTransport_Swapped(flag) == IF flag = "true" THEN "stdio" ELSE "sse"

SelectTransport(flag) == IF flag = "true" THEN "sse" ELSE "stdio"

\* runStdioServer: catch (error) { ...; process.exit(1) }
ProcAfterConnect_Swallowed(ok) == "running"

ProcAfterConnect(ok) == IF ok THEN "running" ELSE "exited"

NoCall == [called |-> FALSE, client |-> 0, url |-> "", toNumber |-> EmptyStr,
           callContext |-> Undefined]

(* ------------------------------------------------------------------ *)
(* State                                                              *)
(* ------------------------------------------------------------------ *)

VARIABLES
    twilioCallService,  \* 0 = undefined, k = the k-th TwilioCallService constructed
    twilioCallbackUrl,  \* '' until a tunnel URL is stored
    pc,                 \* where each handler invocation is suspended
    req,                \* request.params of each invocation
    resp,               \* the envelope each invocation returned
    cause,              \* what ended the invocation and the underlying message
    call,               \* the arguments the invocation passed to makeCall
    sid,                \* what the invocation's makeCall returned
    log,                \* console.error lines of the invocation
    received,           \* number of requests dispatched so far
    constructAttempts,  \* calls of initializeTwilioServices
    constructed,        \* TwilioCallService objects constructed
    forwardStarted,     \* calls of ngrok.forward
    forwardSucceeded,   \* calls of ngrok.forward that returned a URL
    callsStarted,       \* calls of makeCall
    tunnel,             \* how far each invocation's own setupNgrokTunnel call got
    ret,                \* what the settled setupNgrokTunnel call hands to its awaiter
    lastTools,          \* the tools of the last list-tools response
    sseLocal,           \* process.env.SSE_LOCAL
    proc,               \* "loading", "connecting", "running" or "exited"
    bound,              \* the transport bindings started by the main execution
    exitCode,           \* the status passed to process.exit
    connectFailed,      \* server.connect(StdioServerTransport) rejected
    listening,          \* app.listen returned
    conns,              \* open GET /sse connections
    transports,         \* live SSEServerTransport instances
    posted,             \* POST /messages requests handled
    delivered           \* posted messages handed to the server

transportVars == <<sseLocal, proc, bound, exitCode, connectFailed, listening, conns,
                   transports, posted, delivered>>

vars == <<twilioCallService, twilioCallbackUrl, pc, req, resp, cause, call, sid, log,
          received, constructAttempts, constructed, forwardStarted, forwardSucceeded,
          callsStarted, tunnel, ret, lastTools, sseLocal, proc, bound, exitCode,
          connectFailed, listening, conns, transports, posted, delivered>>

NoCause == [step |-> "none", msg |-> ""]

\* the settled promise of setupNgrokTunnel: return url, or throw error
NoRet == [ok |-> FALSE, url |-> "", err |-> ""]
Returned(u) == [ok |-> TRUE, url |-> u, err |-> ""]
Thrown(m) == [ok |-> FALSE, url |-> "", err |-> m]
Cause(s, m) == [step |-> s, msg |-> m]

Init ==
    /\ twilioCallService = 0
    /\ twilioCallbackUrl = ""
    /\ pc = [r \in ReqIds |-> "idle"]
    /\ req = [r \in ReqIds |-> NoRequest]
    /\ resp = [r \in ReqIds |-> NoResponse]
    /\ cause = [r \in ReqIds |-> NoCause]
    /\ call = [r \in ReqIds |-> NoCall]
    /\ sid = [r \in ReqIds |-> Undefined]
    /\ log = [r \in ReqIds |-> <<>>]
    /\ received = 0
    /\ constructAttempts = 0
    /\ constructed = 0
    /\ forwardStarted = 0
    /\ forwardSucceeded = 0
    /\ callsStarted = 0
    /\ tunnel = [r \in ReqIds |-> "none"]
    /\ ret = [r \in ReqIds |-> NoRet]
    /\ lastTools = <<>>
    /\ sseLocal \in EnvValues
    /\ proc = "loading"
    /\ bound = {}
    /\ exitCode = 0
    /\ connectFailed = FALSE
    /\ listening = FALSE
    /\ conns = {}
    /\ transports = {}
    /\ posted = 0
    /\ delivered = 0

(* ------------------------------------------------------------------ *)
(* Startup and transports                                             *)
(* ------------------------------------------------------------------ *)

handlerVars == <<twilioCallService, twilioCallbackUrl, pc, req, resp, cause, call, sid,
                 log, received, constructAttempts, constructed, forwardStarted,
                 forwardSucceeded, callsStarted, tunnel, ret>>

\* main execution: one of runSSEServer / runStdioServer is called; runSSEServer
\* runs to its end (app.listen returns, or throws and is logged), runStdioServer
\* runs to `await server.connect(transport)`
Main(listenOk) ==
    /\ proc = "loading"
    /\ bound' = bound \cup {SelectTransport(sseLocal)}
    /\ IF SelectTransport(sseLocal) = "sse"
       THEN /\ proc' = "running"
            /\ listening' = listenOk
       ELSE /\ proc' = "connecting"
            /\ UNCHANGED listening
    /\ UNCHANGED <<handlerVars, lastTools, sseLocal, exitCode, connectFailed, conns,
                   transports, posted, delivered>>

\* runStdioServer resumes: server.connect resolved, or rejected and the catch
\* block calls process.exit(1)
StdioConnected(ok) ==
    /\ proc = "connecting"
    /\ proc' = ProcAfterConnect(ok)
    /\ connectFailed' = ~ok
    /\ exitCode' = IF ProcAfterConnect(ok) = "exited" THEN FatalExitCode ELSE exitCode
    /\ UNCHANGED <<handlerVars, lastTools, sseLocal, bound, listening, conns,
                   transports, posted, delivered>>

\* the stdio transport hands a message read from stdin to the server
Serving == proc = "running" /\ bound = {"stdio"}

\* app.get('/sse'): new SSEServerTransport('/messages', res); server.connect
SseConnect(c) ==
    /\ proc = "running" /\ listening
    /\ c \notin conns
    /\ c \notin transports
    /\ conns' = conns \cup {c}
    /\ transports' = transports \cup {c}
    /\ UNCHANGED <<handlerVars, lastTools, sseLocal, proc, bound, exitCode,
                   connectFailed, listening, posted, delivered>>

\* res 'close': the listener registered at index.ts:228 is empty and releases
\* nothing itself; whether the transport handed to server.connect stops being
\* live on close is decided inside SSEServerTransport, whose code is not part
\* of this file, so either outcome is possible
SseClose(c, released) ==
    /\ c \in conns
    /\ conns' = conns \ {c}
    /\ transports' = IF released THEN transports \ {c} ELSE transports
    /\ UNCHANGED <<handlerVars, lastTools, sseLocal, proc, bound, exitCode,
                   connectFailed, listening, posted, delivered>>

\* app.post('/messages'): the handler body is empty, the message is handed to
\* no transport
PostMessage ==
    /\ proc = "running" /\ listening
    /\ posted < MaxReq
    /\ posted' = posted + 1
    /\ UNCHANGED <<handlerVars, lastTools, sseLocal, proc, bound, exitCode,
                   connectFailed, listening, conns, transports, delivered>>

\* listToolsRequestHandler
ListTools ==
    /\ Serving
    /\ lastTools' = ListToolsResult
    /\ UNCHANGED <<handlerVars, transportVars>>

(* ------------------------------------------------------------------ *)
(* Handler segments                                                   *)
(* ------------------------------------------------------------------ *)

\* return of an envelope, through the finally block
Return_Rethrown(r, envelope, why, lines) ==
    /\ pc' = [pc EXCEPT ![r] = "threw"]
    /\ cause' = [cause EXCEPT ![r] = why]
    /\ log' = [log EXCEPT ![r] = FinallyLog(lines)]
    /\ UNCHANGED resp

Return(r, envelope, why, lines) ==
    /\ pc' = [pc EXCEPT ![r] = "done"]
    /\ resp' = [resp EXCEPT ![r] = envelope]
    /\ cause' = [cause EXCEPT ![r] = why]
    /\ log' = [log EXCEPT ![r] = FinallyLog(lines)]

\* twilioCallService.makeCall(twilioCallbackUrl, toNumber, callContext), then await
StartMakeCall(r, q, client, url, lines) ==
    /\ pc' = [pc EXCEPT ![r] = "awaitMakeCall"]
    /\ call' = [call EXCEPT ![r] = [called |-> TRUE, client |-> client, url |-> url,
                                    toNumber |-> ToNumberOf(q.args),
                                    callContext |-> CallContextOf(q.args)]]
    /\ callsStarted' = callsStarted + 1
    /\ log' = [log EXCEPT ![r] = lines]
    /\ UNCHANGED <<resp, cause>>

\* the handler from its entry to its first await, or to its return
Receive(r, q, clientOk, clientErr) ==
    /\ Serving
    /\ r = received + 1
    /\ r \in ReqIds
    /\ pc[r] = "idle"
    /\ received' = r
    /\ req' = [req EXCEPT ![r] = q]
    /\ UNCHANGED <<sid, forwardStarted, forwardSucceeded, ret, lastTools, transportVars>>
    /\ LET lines == <<"received">> IN
       IF ~q.args.present THEN
            /\ Return(r, TextEnvelope(ErrorText(MsgNoArguments)),
                      Cause("arguments", MsgNoArguments), lines)
            /\ UNCHANGED <<twilioCallService, twilioCallbackUrl, call, tunnel,
                           constructAttempts, constructed, callsStarted>>
       ELSE IF q.name # TRIGGER_CALL_TOOL THEN
            /\ Return(r, TextEnvelope(UnknownToolText(q.name)),
                      Cause("unknown", q.name), lines)
            /\ UNCHANGED <<twilioCallService, twilioCallbackUrl, call, tunnel,
                           constructAttempts, constructed, callsStarted>>
       ELSE IF ToNumberMissing(q.args) THEN
            /\ Return(r, TextEnvelope(ErrorText(MsgRequired)),
                      Cause("validation", MsgRequired), lines)
            /\ UNCHANGED <<twilioCallService, twilioCallbackUrl, call, tunnel,
                           constructAttempts, constructed, callsStarted>>
       ELSE IF ~IsE164(ToNumberOf(q.args)) THEN
            /\ Return(r, TextEnvelope(ErrorText(MsgE164)),
                      Cause("validation", MsgE164), lines)
            /\ UNCHANGED <<twilioCallService, twilioCallbackUrl, call, tunnel,
                           constructAttempts, constructed, callsStarted>>
       ELSE LET init == NeedsClientInit(twilioCallService)
                ok == ~init \/ clientOk
                client == IF init
                          THEN ClientAfterInit(twilioCallService, clientOk, constructed + 1)
                          ELSE twilioCallService
            IN  /\ twilioCallService' = client
                /\ constructAttempts' = IF init THEN constructAttempts + 1
                                        ELSE constructAttempts
                /\ constructed' = IF init /\ clientOk THEN constructed + 1 ELSE constructed
                /\ UNCHANGED twilioCallbackUrl
                /\ IF ~ok THEN
                        /\ Return(r, FailureEnvelope(clientErr),
                                  Cause("client", clientErr), lines)
                        /\ UNCHANGED <<call, callsStarted, tunnel>>
                   ELSE IF NeedsTunnel(twilioCallbackUrl) THEN
                        \* setupNgrokTunnel: await import('@ngrok/ngrok')
                        /\ pc' = [pc EXCEPT ![r] = "awaitImport"]
                        /\ log' = [log EXCEPT ![r] = lines]
                        /\ tunnel' = [tunnel EXCEPT ![r] = "import"]
                        /\ UNCHANGED <<resp, cause, call, callsStarted>>
                   ELSE /\ StartMakeCall(r, q, client, twilioCallbackUrl, lines)
                        /\ UNCHANGED tunnel

\* setupNgrokTunnel resumes after the dynamic import: it calls ngrok.forward
\* and awaits it, or its catch block logs and rethrows, which settles the
\* promise the handler awaits
ImportDone(r, ok, err) ==
    /\ pc[r] = "awaitImport"
    /\ UNCHANGED <<twilioCallService, twilioCallbackUrl, req, resp, cause, call, sid, log,
                   received, constructAttempts, constructed, forwardSucceeded,
                   callsStarted, lastTools, transportVars>>
    /\ IF ok THEN
            /\ pc' = [pc EXCEPT ![r] = "awaitForward"]
            /\ forwardStarted' = forwardStarted + 1
            /\ tunnel' = [tunnel EXCEPT ![r] = "forward"]
            /\ UNCHANGED ret
       ELSE /\ pc' = [pc EXCEPT ![r] = "awaitSetup"]
            /\ tunnel' = [tunnel EXCEPT ![r] = "failed"]
            /\ ret' = [ret EXCEPT ![r] = Thrown(err)]
            /\ UNCHANGED forwardStarted

\* ngrok.forward settles and setupNgrokTunnel resumes: forward threw with
\* message err, or gave a listener whose url() is url (possibly empty);
\* setupNgrokTunnel returns the URL or throws, the handler has not resumed yet
ForwardDone(r, threw, err, url) ==
    /\ pc[r] = "awaitForward"
    /\ pc' = [pc EXCEPT ![r] = "awaitSetup"]
    /\ UNCHANGED <<twilioCallService, twilioCallbackUrl, req, resp, cause, call, sid, log,
                   received, constructAttempts, constructed, forwardStarted,
                   callsStarted, lastTools, transportVars>>
    /\ IF threw THEN
            /\ tunnel' = [tunnel EXCEPT ![r] = "failed"]
            /\ ret' = [ret EXCEPT ![r] = Thrown(err)]
            /\ UNCHANGED forwardSucceeded
       ELSE IF ~UrlObtained(url) THEN
            /\ tunnel' = [tunnel EXCEPT ![r] = "failed"]
            /\ ret' = [ret EXCEPT ![r] = Thrown(MsgNoUrl)]
            /\ UNCHANGED forwardSucceeded
       ELSE /\ tunnel' = [tunnel EXCEPT ![r] = "ok"]
            /\ ret' = [ret EXCEPT ![r] = Returned(url)]
            /\ forwardSucceeded' = forwardSucceeded + 1

\* the handler resumes at `twilioCallbackUrl = await setupNgrokTunnel(...)`: it
\* stores the URL and calls makeCall, or the inner catch returns the failure
TunnelResumed_Fallthrough(r) ==
    /\ pc[r] = "awaitSetup"
    /\ ret' = [ret EXCEPT ![r] = NoRet]
    /\ UNCHANGED <<twilioCallService, req, sid, received, constructAttempts, constructed,
                   forwardStarted, forwardSucceeded, tunnel, lastTools, transportVars>>
    /\ IF ret[r].ok THEN
            /\ twilioCallbackUrl' = ret[r].url
            /\ StartMakeCall(r, req[r], twilioCallService, ret[r].url, log[r])
       ELSE IF twilioCallbackUrl # "" THEN
            /\ UNCHANGED twilioCallbackUrl
            /\ StartMakeCall(r, req[r], twilioCallService, twilioCallbackUrl, log[r])
       ELSE /\ Return(r, FailureEnvelope(ret[r].err), Cause("tunnel", ret[r].err), log[r])
            /\ UNCHANGED <<twilioCallbackUrl, call, callsStarted>>

TunnelResumed(r) ==
    /\ pc[r] = "awaitSetup"
    /\ ret' = [ret EXCEPT ![r] = NoRet]
    /\ UNCHANGED <<twilioCallService, req, sid, received, constructAttempts, constructed,
                   forwardStarted, forwardSucceeded, tunnel, lastTools, transportVars>>
    /\ IF ret[r].ok THEN
            /\ twilioCallbackUrl' = ret[r].url
            /\ StartMakeCall(r, req[r], twilioCallService, ret[r].url, log[r])
       ELSE /\ Return(r, FailureEnvelope(ret[r].err), Cause("tunnel", ret[r].err), log[r])
            /\ UNCHANGED <<twilioCallbackUrl, call, callsStarted>>

\* makeCall settles: it returns a call SID or throws
MakeCallDone(r, threw, err, s) ==
    /\ pc[r] = "awaitMakeCall"
    /\ UNCHANGED <<twilioCallService, twilioCallbackUrl, req, call, received,
                   constructAttempts, constructed, forwardStarted, forwardSucceeded,
                   callsStarted, tunnel, ret, lastTools, transportVars>>
    /\ IF threw THEN
            /\ Return(r, FailureEnvelope(err), Cause("makeCall", err), log[r])
            /\ UNCHANGED sid
       ELSE /\ sid' = [sid EXCEPT ![r] = s]
            /\ Return(r, SuccessEnvelope(s, ToNumberOf(req[r].args),
                                         CallContextOf(req[r].args)),
                      NoCause, log[r])

Next ==
    \/ \E r \in ReqIds, q \in Requests, ok \in BOOLEAN, e \in ClientErrors :
            Receive(r, q, ok, e)
    \/ \E r \in ReqIds, ok \in BOOLEAN, e \in ImportErrors : ImportDone(r, ok, e)
    \/ \E r \in ReqIds, threw \in BOOLEAN, e \in ForwardErrors, u \in Urls \cup {""} :
            ForwardDone(r, threw, e, u)
    \/ \E r \in ReqIds : TunnelResumed(r)
    \/ \E r \in ReqIds, threw \in BOOLEAN, e \in CallErrors, s \in Sids :
            MakeCallDone(r, threw, e, s)
    \/ \E listenOk \in BOOLEAN : Main(listenOk)
    \/ \E ok \in BOOLEAN : StdioConnected(ok)
    \/ \E c \in ConnIds : SseConnect(c)
    \/ \E c \in ConnIds, released \in BOOLEAN : SseClose(c, released)
    \/ PostMessage
    \/ ListTools

Spec == Init /\ [][Next]_vars

\* a step of a suspended handler: an awaited call settles or the handler resumes
Settle ==
    \E r \in ReqIds :
        \/ \E ok \in BOOLEAN, e \in ImportErrors : ImportDone(r, ok, e)
        \/ \E threw \in BOOLEAN, e \in ForwardErrors, u \in Urls \cup {""} :
                ForwardDone(r, threw, e, u)
        \/ TunnelResumed(r)
        \/ \E threw \in BOOLEAN, e \in CallErrors, s \in Sids :
                MakeCallDone(r, threw, e, s)

\* while a handler is suspended, some awaited call eventually settles
FairSpec == Spec /\ WF_vars(Settle)

(* ------------------------------------------------------------------ *)
(* Properties                                                         *)
(* ------------------------------------------------------------------ *)

Done(r) == pc[r] = "done"

IsTriggerCall(r) == req[r].name = "trigger-call"

\* a toNumber that is absent, empty, without a leading '+', or under 10 characters
BadToNumber(a) ==
    \/ ~a.hasToNumber
    \/ Len(a.toNumber) = 0
    \/ a.toNumber[1] # "+"
    \/ Len(a.toNumber) < 10

WellFormed(q) == q.name = "trigger-call" /\ q.args.present /\ ~BadToNumber(q.args)

Dispatched(r) == pc[r] = "idle" /\ pc'[r] # "idle"

\* C1: ngrok.forward is never started while another forward is in flight or
\* after one has succeeded.
TunnelSingleFlight ==
    [][forwardStarted' > forwardStarted =>
          /\ \A r \in ReqIds : pc[r] # "awaitForward"
          /\ forwardSucceeded = 0]_vars

\* C2: once twilioCallbackUrl is non-empty it never changes, and once
\* twilioCallService is set it is never replaced.
HandlesImmutable ==
    [][/\ twilioCallbackUrl # "" => twilioCallbackUrl' = twilioCallbackUrl
       /\ twilioCallService # 0 => twilioCallService' = twilioCallService]_vars

\* C3: the telephony client is constructed at most once; every makeCall goes
\* through that one stored client.
ClientConstructedOnce ==
    /\ constructed <= 1
    /\ twilioCallService \in {0, 1}
    /\ \A r \in ReqIds : call[r].called => call[r].client = 1

ClientReused ==
    /\ constructed = 1
    /\ Cardinality({r \in ReqIds : call[r].called}) >= 2

\* C4: a trigger-call request with a bad toNumber ends in an error envelope
\* within its first segment, with no construction, no forward, no makeCall and
\* the handles unchanged.
ValidationGates ==
    [][\A r \in ReqIds :
          (Dispatched(r) /\ req'[r].name = "trigger-call" /\ BadToNumber(req'[r].args)) =>
              /\ pc'[r] = "done"
              /\ resp'[r].isError
              /\ ~call'[r].called
              /\ UNCHANGED <<twilioCallService, twilioCallbackUrl, constructAttempts,
                             constructed, forwardStarted, forwardSucceeded,
                             callsStarted>>]_vars

ShortNumberRejected ==
    \E r \in ReqIds :
        /\ Done(r) /\ IsTriggerCall(r) /\ req[r].args.present
        /\ req[r].args.toNumber = Plus9
        /\ resp[r].isError /\ ~call[r].called

\* C5 as stated: every request for a tool other than trigger-call, whatever
\* its arguments (absent included), gets an error envelope naming the tool.
UnknownToolAlwaysNamed ==
    \A r \in ReqIds :
        (Done(r) /\ ~IsTriggerCall(r)) =>
            /\ resp[r].isError
            /\ \E i \in DOMAIN resp[r].text : resp[r].text[i] = req[r].name

\* C5 as amended: every request for a tool other than trigger-call whose
\* arguments are present (the empty object included) gets the error envelope
\* "Unknown tool: {name}".
UnknownToolNamedWhenArgs ==
    \A r \in ReqIds :
        (Done(r) /\ ~IsTriggerCall(r) /\ req[r].args.present) =>
            /\ resp[r].isError
            /\ resp[r].kind = "text"
            /\ resp[r].text = <<"Unknown tool: ", req[r].name>>

UnknownToolAnswered ==
    \E r \in ReqIds :
        /\ Done(r) /\ req[r].name = "unsupported-tool" /\ req[r].args.present
        /\ resp[r].isError
        /\ resp[r].text = <<"Unknown tool: ", "unsupported-tool">>

\* C6: every response to a trigger-call request that has arguments is the JSON
\* result with status "success" or "error" and a message; a toNumber without a
\* leading '+' gives status "error" and a message mentioning E.164.
UniformStructuredResult ==
    \A r \in ReqIds :
        (Done(r) /\ IsTriggerCall(r) /\ req[r].args.present) =>
            /\ resp[r].kind = "json"
            /\ resp[r].status \in {"success", "error"}
            /\ resp[r].message # <<>>
            /\ (req[r].args.hasToNumber /\ Len(req[r].args.toNumber) > 0
                  /\ req[r].args.toNumber[1] # "+") =>
                    /\ resp[r].status = "error"
                    /\ \E i \in DOMAIN resp[r].message :
                           resp[r].message[i] = MsgE164

InitFailed(r) == Done(r) /\ cause[r].step \in {"client", "tunnel"}

\* C7: a request whose client construction or tunnel provisioning failed
\* returns a Failure, and when it returns the corresponding handle is absent
\* (the client after a failed construction, the callback URL after a failed
\* provisioning); a valid request that finds a handle absent attempts its
\* initialisation again.
FailedInitRetryable ==
    /\ [](\A r \in ReqIds :
            InitFailed(r) =>
                /\ resp[r].isError
                /\ resp[r].status = "error"
                /\ ~call[r].called)
    /\ [][\A r \in ReqIds :
            /\ (~Done(r) /\ InitFailed(r)') =>
                  /\ cause'[r].step = "client" => twilioCallService' = 0
                  /\ cause'[r].step = "tunnel" => twilioCallbackUrl' = ""
            /\ (Dispatched(r) /\ WellFormed(req'[r])) =>
                  /\ twilioCallService = 0 => constructAttempts' = constructAttempts + 1
                  /\ (twilioCallService' # 0 /\ twilioCallbackUrl = "") =>
                         pc'[r] = "awaitImport"
            /\ (pc[r] = "awaitImport" /\ pc'[r] # "awaitImport") =>
                  \/ pc'[r] = "awaitForward" /\ forwardStarted' = forwardStarted + 1
                  \/ pc'[r] = "awaitSetup" /\ tunnel'[r] = "failed"]_vars

\* C8: when makeCall returns s the response is isError=false with status
\* "success", callSid s, the request's toNumber and its callContext ('' when
\* omitted); isError is false in no other case.
SuccessEnvelopeExact ==
    \A r \in ReqIds :
        Done(r) =>
            /\ sid[r] # Undefined =>
                  /\ resp[r].isError = FALSE
                  /\ resp[r].kind = "json"
                  /\ resp[r].status = "success"
                  /\ resp[r].callSid = sid[r]
                  /\ resp[r].hasToNumber /\ resp[r].toNumber = req[r].args.toNumber
                  /\ resp[r].callContext =
                        (IF req[r].args.callContext = "undefined" THEN ""
                         ELSE req[r].args.callContext)
            /\ resp[r].isError = FALSE =>
                  /\ WellFormed(req[r])
                  /\ call[r].called
                  /\ twilioCallService # 0 /\ twilioCallbackUrl # ""
                  /\ sid[r] \in Sids

SuccessWithDefaultContext ==
    \E r \in ReqIds :
        /\ Done(r) /\ resp[r].status = "success"
        /\ req[r].args.callContext = "undefined"
        /\ resp[r].callSid = "CA123"

CollaboratorFailed(r) == Done(r) /\ cause[r].step \in {"client", "tunnel", "makeCall"}

\* C9: a failure of construction, tunnel provisioning or makeCall with message
\* m gives isError=true, status "error" and message "Failed to trigger call: m";
\* the next request can still be dispatched.
CollaboratorFailureReported ==
    /\ \A r \in ReqIds :
          CollaboratorFailed(r) =>
              /\ resp[r].isError
              /\ resp[r].kind = "json"
              /\ resp[r].status = "error"
              /\ resp[r].message = <<"Failed to trigger call: ", cause[r].msg>>
    /\ ((\E r \in ReqIds : CollaboratorFailed(r)) /\ received < MaxReq) =>
          ENABLED (\E q \in Requests, ok \in BOOLEAN, e \in ClientErrors :
                      Receive(received + 1, q, ok, e))

ServedAfterFailure ==
    \E r1, r2 \in ReqIds :
        /\ r1 < r2
        /\ CollaboratorFailed(r1) /\ cause[r1].step = "makeCall"
        /\ Done(r2)

\* C10: a request passes ensure-client, then ensure-URL, then makeCall, and
\* makeCall is never invoked with the client absent or an empty callback URL.
OrchestrationOrder ==
    /\ [](\A r \in ReqIds :
            /\ call[r].called => (call[r].client # 0 /\ call[r].url # "")
            /\ pc[r] \in {"awaitImport", "awaitForward", "awaitSetup", "awaitMakeCall"} =>
                  twilioCallService # 0
            /\ pc[r] = "awaitMakeCall" => (call[r].called /\ twilioCallbackUrl # ""))
    /\ [][\A r \in ReqIds :
            /\ pc'[r] = "awaitForward" => pc[r] \in {"awaitImport", "awaitForward"}
            /\ pc'[r] = "awaitSetup" => pc[r] \in {"awaitImport", "awaitForward", "awaitSetup"}
            /\ (pc'[r] = "awaitMakeCall" /\ pc[r] # "awaitMakeCall") =>
                  /\ pc[r] \in {"idle", "awaitSetup"}
                  /\ call'[r].url = twilioCallbackUrl'
                  /\ call'[r].client = twilioCallService'
            /\ (call'[r].called /\ ~call[r].called) => pc'[r] = "awaitMakeCall"]_vars

CallPlacedAfterTunnel ==
    \E r \in ReqIds :
        /\ pc[r] = "awaitMakeCall"
        /\ forwardSucceeded >= 1
        /\ call[r].url = twilioCallbackUrl

CollaboratorsUntouched ==
    /\ UNCHANGED <<twilioCallService, twilioCallbackUrl, constructAttempts, constructed,
                   forwardStarted, forwardSucceeded, callsStarted>>
    /\ call' = call
    /\ tunnel' = tunnel

\* C11: a call-tool request without arguments gets the error envelope reporting
\* "No arguments provided" whatever its tool name, in its first segment, with
\* no collaborator touched.
MissingArgumentsRejected ==
    [][\A r \in ReqIds :
          (Dispatched(r) /\ ~req'[r].args.present) =>
              /\ pc'[r] = "done"
              /\ resp'[r].isError
              /\ resp'[r].kind = "text"
              /\ resp'[r].text = <<"Error: ", "No arguments provided">>
              /\ CollaboratorsUntouched]_vars

MissingArgumentsAnswered ==
    \E r1, r2 \in ReqIds :
        /\ Done(r1) /\ ~req[r1].args.present /\ req[r1].name = "unsupported-tool"
        /\ Done(r2) /\ ~req[r2].args.present /\ req[r2].name = "trigger-call"
        /\ resp[r1].isError /\ resp[r2].isError

\* C12: every dispatched request returns exactly one envelope (content plus
\* isError), nothing propagates out of the handler, and when the collaborator
\* calls settle every dispatched request is answered.
EveryRequestAnswered ==
    /\ [](\A r \in ReqIds :
            /\ pc[r] \in {"idle", "awaitImport", "awaitForward", "awaitSetup",
                         "awaitMakeCall", "done"}
            /\ Done(r) <=> resp[r].kind \in {"text", "json"}
            /\ resp[r].isError \in BOOLEAN
            /\ resp[r].kind = "text" => resp[r].text # <<>>
            /\ resp[r].kind = "json" => resp[r].message # <<>>)
    /\ [][\A r \in ReqIds : Done(r) => (pc'[r] = "done" /\ resp'[r] = resp[r])]_vars
    /\ \A r \in ReqIds : (pc[r] # "idle") ~> Done(r)

AnsweredOnBothPaths ==
    \E r1, r2 \in ReqIds :
        /\ Done(r1) /\ resp[r1].isError /\ cause[r1].step = "tunnel"
        /\ Done(r2) /\ ~resp[r2].isError

\* C13: with arguments present a trigger-call request is accepted exactly when
\* toNumber starts with '+' and has at least 10 characters; an absent or empty
\* toNumber fails with "Phone number is required", any other rejected toNumber
\* with the E.164 message.
ValidationOutcome ==
    [][\A r \in ReqIds :
          (Dispatched(r) /\ req'[r].name = "trigger-call" /\ req'[r].args.present) =>
              LET a == req'[r].args
                  absent == ~a.hasToNumber \/ a.toNumber = <<>>
                  shaped == a.hasToNumber /\ Len(a.toNumber) >= 10 /\ a.toNumber[1] = "+"
              IN  /\ shaped <=> resp'[r].kind # "text"
                  /\ absent =>
                        resp'[r].text = <<"Error: ", "Phone number is required">>
                  /\ (~absent /\ ~shaped) =>
                        resp'[r].text =
                          <<"Error: ",
                            "Phone number must be in E.164 format (e.g., +1234567890)">>]_vars

BoundaryLengths ==
    \E r1, r2 \in ReqIds :
        /\ Done(r1) /\ req[r1].args.toNumber = Plus9 /\ resp[r1].kind = "text"
        /\ req[r2].args.toNumber = Plus10 /\ call[r2].called

\* C14: the main execution starts exactly one binding, the networked one when
\* SSE_LOCAL is 'true' and the stdio one otherwise, and it never changes.
ExactlyOneBinding ==
    /\ [](/\ Cardinality(bound) <= 1
          /\ proc # "loading" =>
                bound = {IF sseLocal = "true" THEN "sse" ELSE "stdio"})
    /\ [][bound # {} => bound' = bound]_vars

SseChosenForTrue ==
    /\ sseLocal = "true"
    /\ bound = {"sse"}
    /\ listening
    /\ conns # {}

\* C15: in networked mode the live transport instances are exactly the open
\* connections, and every message posted on /messages has been handed to the
\* dispatcher when its POST handler returns.
SseLifecycle ==
    /\ transports = conns
    /\ delivered = posted

\* C16: a failed stdio connect ends the process with a non-zero status before
\* any request is served; no step of a request handler changes the process
\* state.
FatalStdioSetup ==
    /\ [](/\ connectFailed =>
                /\ proc = "exited"
                /\ exitCode # 0
                /\ received = 0
                /\ lastTools = <<>>
          /\ proc = "exited" =>
                /\ connectFailed
                /\ bound = {"stdio"}
                /\ \A r \in ReqIds : pc[r] = "idle")
    /\ [][(\E r \in ReqIds : pc'[r] # pc[r]) => (proc = "running" /\ proc' = proc)]_vars

ExitedOnConnectFailure ==
    /\ proc = "exited"
    /\ exitCode = 1
    /\ sseLocal # "true"

\* C17: every request logs its receipt at the start and exactly one completion
\* line, and the completion line exists only once the response is determined.
LatencyAccounting ==
    \A r \in ReqIds :
        /\ pc[r] = "idle" => log[r] = <<>>
        /\ pc[r] \in {"awaitImport", "awaitForward", "awaitSetup", "awaitMakeCall"} =>
              log[r] = <<"received">>
        /\ Done(r) => log[r] = <<"received", "completed">>
        /\ (\E i \in DOMAIN log[r] : log[r][i] = "completed") =>
              (Done(r) /\ resp[r].kind # "none")

LoggedOnBothPaths ==
    \E r1, r2 \in ReqIds :
        /\ Done(r1) /\ resp[r1].isError /\ log[r1] = <<"received", "completed">>
        /\ Done(r2) /\ ~resp[r2].isError /\ log[r2] = <<"received", "completed">>

\* C18: a request whose client construction failed made no tunnel call and no
\* makeCall; a request whose own tunnel call failed made no makeCall, whatever
\* the cached URL is by then.
ShortCircuit ==
    \A r \in ReqIds :
        /\ cause[r].step = "client" => (tunnel[r] = "none" /\ ~call[r].called)
        /\ tunnel[r] = "failed" =>
              /\ ~call[r].called
              /\ pc[r] \in {"awaitSetup", "done"}
              /\ Done(r) => resp[r].isError
        /\ call[r].called => tunnel[r] \in {"none", "ok"}
        /\ tunnel[r] # "none" => twilioCallService # 0

TunnelFailedWhileUrlCached ==
    \E r \in ReqIds :
        /\ tunnel[r] = "failed"
        /\ twilioCallbackUrl # ""
        /\ Done(r) /\ resp[r].isError
        /\ ~call[r].called

\* C19: makeCall gets, and the response echoes, the request's own toNumber and
\* callContext; the callSid is the one its own makeCall returned; a step of one
\* request changes no other request's data.
PerRequestIsolation ==
    /\ [](\A r \in ReqIds :
            /\ call[r].called =>
                  /\ call[r].toNumber = req[r].args.toNumber
                  /\ call[r].callContext =
                        (IF req[r].args.callContext = "undefined" THEN ""
                         ELSE req[r].args.callContext)
            /\ (Done(r) /\ ~resp[r].isError) =>
                  /\ resp[r].toNumber = req[r].args.toNumber
                  /\ resp[r].callContext = call[r].callContext
                  /\ resp[r].callSid = sid[r])
    /\ [][\A r \in ReqIds :
            pc'[r] # pc[r] =>
                \A o \in ReqIds \ {r} :
                    /\ req'[o] = req[o] /\ resp'[o] = resp[o] /\ call'[o] = call[o]
                    /\ sid'[o] = sid[o] /\ log'[o] = log[o] /\ pc'[o] = pc[o]]_vars

InterleavedCalls ==
    \E r1, r2 \in ReqIds :
        /\ r1 < r2
        /\ pc[r1] = "awaitMakeCall" /\ call[r1].toNumber = Plus10
        /\ Done(r2) /\ ~resp[r2].isError /\ resp[r2].toNumber = Plus11
        /\ resp[r2].callContext = "test"

\* C20: list-tools, a call-tool request without arguments and a call-tool
\* request for an unknown tool leave the handles unchanged and touch no
\* collaborator; list-tools always answers with the one trigger-call tool.
NonCallFrame ==
    /\ [](lastTools \in {<<>>, <<"trigger-call">>})
    /\ [][(\/ lastTools' # lastTools
           \/ \E r \in ReqIds :
                 /\ Dispatched(r)
                 /\ (~req'[r].args.present \/ req'[r].name # "trigger-call"))
          => CollaboratorsUntouched]_vars

ListedWhileCallInFlight ==
    /\ lastTools = <<"trigger-call">>
    /\ \E r \in ReqIds : pc[r] = "awaitForward"
    /\ \E r \in ReqIds : Done(r) /\ req[r].name = "unsupported-tool"

====
